---------------------------- MODULE Spec2Model ----------------------------
(***************************************************************************)
(* Pico y placa Pasto: the restriction rule (Reglas/pico_placa_pasto_2026), *)
(* the ledger (db/db.py) and the live-camera ingest loop                    *)
(* (detector/live_camera.py).                                               *)
(*                                                                          *)
(* A datetime is the number of seconds since 2025-01-01T00:00:00 (naive     *)
(* local time, as datetime.now() gives it); sub-second parts are not        *)
(* modelled.  A date is the tuple <<year, month, day>>, a time of day the   *)
(* number of seconds since midnight.  A plate is a tuple of one-character   *)
(* strings.                                                                 *)
(***************************************************************************)
EXTENDS Integers, Sequences, FiniteSets, TLC

VARIABLES
    cfg,         \* which rule tables the module globals hold
    reloj,       \* datetime.now()
    consulta,    \* last call of puede_circular_pasto: its arguments
    veredicto,   \* ... and what it returned or raised
    vehicles,    \* table vehicles: plate -> row
    detections,  \* table detections, in insertion order
    violations,  \* table violations, in insertion order
    cooldown,    \* live_camera: cooldown dict
    pc,          \* live_camera: position in the loop body
    ev,          \* live_camera: locals of the plate being processed
    n_eventos,   \* live_camera: plates read so far
    n_fallas,    \* storage failures so far
    historial,   \* history: the locals each finished event ended with
    llamada,     \* a caller of the db API: the call in progress
    n_llamadas   \* db API calls started so far

vars == <<cfg, reloj, consulta, veredicto, vehicles, detections, violations,
          cooldown, pc, ev, n_eventos, n_fallas, historial, llamada,
          n_llamadas>>

varsRegla == <<consulta, veredicto>>
varsLedger == <<vehicles, detections, violations>>
varsCamara == <<cooldown, pc, ev, n_eventos, n_fallas, historial>>
varsLlamada == <<llamada, n_llamadas>>

\* Python's None and a present value: the empty and the one-element tuple
None == <<>>
Some(x) == <<x>>
Val(o) == o[1]

-----------------------------------------------------------------------------
(* datetime, date, time                                                     *)

DiasMes == <<31, 28, 31, 30, 31, 30, 31, 31, 30, 31, 30, 31>>

RECURSIVE DiasAntesDeMes(_)
DiasAntesDeMes(m) == IF m = 1 THEN 0 ELSE DiasAntesDeMes(m - 1) + DiasMes[m - 1]

\* time(h, m, s)
time(h, m, s) == (h * 60 + m) * 60 + s

\* date(y, m, d)
date(y, m, d) == <<y, m, d>>

\* days from 2025-01-01 to the date (2025 and 2026 have 365 days)
Ordinal(f) == (f[1] - 2025) * 365 + DiasAntesDeMes(f[2]) + (f[3] - 1)

\* datetime(y, mo, d, h, mi, s)
datetime(y, mo, d, h, mi, s) == Ordinal(date(y, mo, d)) * (24 * 60 * 60) + time(h, mi, s)

RECURSIVE MesDe(_, _)
MesDe(doy, m) == IF doy < DiasAntesDeMes(m) + DiasMes[m] THEN m ELSE MesDe(doy, m + 1)

\* datetime.date()
Fecha(dt) ==
    LET ord == dt \div (24 * 60 * 60)
        doy == ord % 365
        m   == MesDe(doy, 1)
    IN  <<2025 + (ord \div 365), m, doy - DiasAntesDeMes(m) + 1>>

\* datetime.time()
Hora(dt) == dt % (24 * 60 * 60)

\* date.strftime("%A").upper(): 2025-01-01 is a Wednesday
NombresDia == <<"MONDAY", "TUESDAY", "WEDNESDAY", "THURSDAY", "FRIDAY",
                "SATURDAY", "SUNDAY">>

StrftimeA(f) == NombresDia[((Ordinal(f) + 2) % 7) + 1]

-----------------------------------------------------------------------------
(* Reglas/pico_placa_pasto_2026.py                                          *)

HORARIO_INICIO == time(7, 30, 0)
HORARIO_FIN == time(19, 0, 0)

RESTRICCIONES ==
    [d \in {"LUNES", "MARTES", "MIERCOLES", "JUEVES", "VIERNES"} |->
        CASE d = "LUNES"     -> {0, 1}
          [] d = "MARTES"    -> {2, 3}
          [] d = "MIERCOLES" -> {4, 5}
          [] d = "JUEVES"    -> {6, 7}
          [] d = "VIERNES"   -> {8, 9}]

DIA_MAP ==
    [d \in {"MONDAY", "TUESDAY", "WEDNESDAY", "THURSDAY", "FRIDAY", "SATURDAY",
            "SUNDAY"} |->
        CASE d = "MONDAY"    -> "LUNES"
          [] d = "TUESDAY"   -> "MARTES"
          [] d = "WEDNESDAY" -> "MIERCOLES"
          [] d = "THURSDAY"  -> "JUEVES"
          [] d = "FRIDAY"    -> "VIERNES"
          [] d = "SATURDAY"  -> "SABADO"
          [] d = "SUNDAY"    -> "DOMINGO"]

FESTIVOS_2025 ==
    { date(2025, 1, 1), date(2025, 1, 6), date(2025, 3, 24), date(2025, 4, 17),
      date(2025, 4, 18), date(2025, 5, 1), date(2025, 6, 2), date(2025, 6, 23),
      date(2025, 6, 30), date(2025, 7, 20), date(2025, 8, 7), date(2025, 8, 18),
      date(2025, 10, 13), date(2025, 11, 3), date(2025, 11, 17),
      date(2025, 12, 8), date(2025, 12, 25) }

DEMO_MODE == FALSE

DEMO_DATETIME == datetime(2025, 11, 12, 8, 0, 0)

\* the pairs date |-> digits of the special calendar
EntradasCalendario ==
    { <<date(2025, 11, 18), {2, 3}>>, <<date(2025, 11, 19), {4, 5}>>,
      <<date(2025, 11, 20), {6, 7}>>, <<date(2025, 11, 21), {8, 9}>>,
      <<date(2025, 11, 24), {2, 3}>>, <<date(2025, 11, 25), {4, 5}>>,
      <<date(2025, 11, 26), {6, 7}>>, <<date(2025, 11, 27), {8, 9}>>,
      <<date(2025, 11, 28), {0, 1}>>,
      <<date(2025, 12, 1), {4, 5}>>, <<date(2025, 12, 2), {6, 7}>>,
      <<date(2025, 12, 3), {8, 9}>>, <<date(2025, 12, 4), {0, 1}>>,
      <<date(2025, 12, 5), {2, 3}>>,
      <<date(2025, 12, 9), {8, 9}>>, <<date(2025, 12, 10), {0, 1}>>,
      <<date(2025, 12, 11), {2, 3}>>, <<date(2025, 12, 12), {4, 5}>>,
      <<date(2025, 12, 15), {8, 9}>>, <<date(2025, 12, 16), {0, 1}>> }

\* a dict from a set of key/value pairs with distinct keys
Dict(pares) ==
    [k \in {p[1] : p \in pares} |-> (CHOOSE p \in pares : p[1] = k)[2]]

CALENDARIO_PICO_PLACA_2025 == Dict(EntradasCalendario)

\* The module globals as the source sets them.
ConfiguracionFuente ==
    [ HORARIO_INICIO |-> HORARIO_INICIO,
      HORARIO_FIN    |-> HORARIO_FIN,
      RESTRICCIONES  |-> RESTRICCIONES,
      FESTIVOS       |-> FESTIVOS_2025,
      CALENDARIO     |-> CALENDARIO_PICO_PLACA_2025 ]

\* _get_fecha_hora(fecha_hora), with datetime.now() = ahora
_get_fecha_hora(fecha_hora, ahora) ==
    IF DEMO_MODE THEN DEMO_DATETIME
    ELSE IF fecha_hora = None THEN ahora
    ELSE Val(fecha_hora)

\* str.isdigit() and int() of one character
Digitos == {"0", "1", "2", "3", "4", "5", "6", "7", "8", "9"}

isdigit(ch) == ch \in Digitos

int(ch) ==
    CASE ch = "0" -> 0 [] ch = "1" -> 1 [] ch = "2" -> 2 [] ch = "3" -> 3
      [] ch = "4" -> 4 [] ch = "5" -> 5 [] ch = "6" -> 6 [] ch = "7" -> 7
      [] ch = "8" -> 8 [] ch = "9" -> 9

\* str.upper() of one character, on the letters the inputs use
upper(ch) ==
    CASE ch = "a" -> "A" [] ch = "b" -> "B" [] ch = "c" -> "C"
      [] OTHER -> ch

\* _ultimo_digito(placa): the scan from the end, position i downwards;
\* None stands for raise ValueError
RECURSIVE UltimoDigitoDesde(_, _)
UltimoDigitoDesde(placa, i) ==
    IF i = 0 THEN None
    ELSE IF isdigit(upper(placa[i])) THEN Some(int(upper(placa[i])))
    ELSE UltimoDigitoDesde(placa, i - 1)

_ultimo_digito(placa) == UltimoDigitoDesde(placa, Len(placa))

\* dict.get(k, default)
Get(d, k, default) == IF k \in DOMAIN d THEN d[k] ELSE default

\* What a call of puede_circular_pasto gives: ret is "True" or "False" (the
\* bool returned) or "ValueError" (raised), motivo the message returned.
Retorno(ok, motivo) == [ret |-> IF ok THEN "True" ELSE "False", motivo |-> motivo]
Raise(exc) == [ret |-> exc, motivo |-> ""]

\* line 142: a weekend day or a national holiday
dia_sin_pico_override_gana(c, fecha, dia_es) ==
    /\ dia_es \in {"SABADO", "DOMINGO"} \/ fecha \in c.FESTIVOS
    /\ fecha \notin DOMAIN c.CALENDARIO

dia_sin_pico(c, fecha, dia_es) ==
    dia_es \in {"SABADO", "DOMINGO"} \/ fecha \in c.FESTIVOS

\* lines 151-155: the weekday's digits, overwritten by the calendar's
restringidos_union(c, fecha, dia_es) ==
    Get(c.RESTRICCIONES, dia_es, {}) \cup
    (IF fecha \in DOMAIN c.CALENDARIO THEN c.CALENDARIO[fecha] ELSE {})

restringidos(c, fecha, dia_es) ==
    IF fecha \in DOMAIN c.CALENDARIO
    THEN c.CALENDARIO[fecha]
    ELSE Get(c.RESTRICCIONES, dia_es, {})

\* line 157
en_horario_fin_excluido(c, hora) == c.HORARIO_INICIO <= hora /\ hora < c.HORARIO_FIN

en_horario(c, hora) == c.HORARIO_INICIO <= hora /\ hora <= c.HORARIO_FIN

\* puede_circular_pasto(placa, fecha_hora) under the rule tables c, with
\* datetime.now() = ahora
puede_circular_pasto(c, placa, fecha_hora, ahora) ==
    LET fh      == _get_fecha_hora(fecha_hora, ahora)
        fecha   == Fecha(fh)
        hora    == Hora(fh)
        dia_es  == DIA_MAP[StrftimeA(fecha)]
        ultimo  == _ultimo_digito(placa)
    IN  IF dia_sin_pico(c, fecha, dia_es)
        THEN Retorno(TRUE, "NO_TIENE_PICO_Y_PLACA")
        ELSE IF ultimo = None
        THEN Raise("ValueError")
        ELSE IF Val(ultimo) \in restringidos(c, fecha, dia_es) /\ en_horario(c, hora)
        THEN Retorno(FALSE, "NO_PUEDE_CIRCULAR")
        ELSE Retorno(TRUE, "PUEDE_CIRCULAR")

-----------------------------------------------------------------------------
(* db/db.py                                                                 *)

\* datetime.isoformat(): "YYYY-MM-DDTHH:MM:SS", here the tuple of its fields;
\* TEXT values compare field by field, as the strings do character by
\* character
isoformat(dt) ==
    LET f == Fecha(dt)
        h == Hora(dt)
    IN  <<f[1], f[2], f[3], h \div 3600, (h \div 60) % 60, h % 60>>

RECURSIVE TextoMenorDesde(_, _, _)
TextoMenorDesde(a, b, i) ==
    IF i > Len(a) THEN FALSE
    ELSE IF a[i] # b[i] THEN a[i] < b[i]
    ELSE TextoMenorDesde(a, b, i + 1)

\* a <= b on two isoformat texts
TextoMenorIgual(a, b) == a = b \/ TextoMenorDesde(a, b, 1)

\* the datetime an isoformat text stands for
fromisoformat(t) == datetime(t[1], t[2], t[3], t[4], t[5], t[6])

\* upsert_vehicle(plate, color, ts) on the table veh: the table it commits
upsert_vehicle_borra_otras(veh, plate, color, ts) ==
    plate :> [color |-> color, first_seen |-> isoformat(ts), last_seen |-> isoformat(ts)]

upsert_vehicle(veh, plate, color, ts) ==
    IF plate \in DOMAIN veh
    THEN [veh EXCEPT ![plate] = [@ EXCEPT !.color = color, !.last_seen = isoformat(ts)]]
    ELSE (plate :> [color |-> color, first_seen |-> isoformat(ts), last_seen |-> isoformat(ts)])
            @@ veh

\* insert_detection(...) on the table det: the table it commits.  origen is
\* not a column: it numbers the live_camera event that made the call (0 for
\* another caller).
insert_detection_omite_suprimida(det, plate, color, ts, source, violation, reason, photo_path, origen) ==
    IF violation /\ photo_path = None THEN det
    ELSE Append(det, [plate |-> plate, color |-> color, timestamp |-> isoformat(ts),
                      source |-> source, violation |-> violation, reason |-> reason,
                      photo_path |-> photo_path, origen |-> origen])

insert_detection(det, plate, color, ts, source, violation, reason, photo_path, origen) ==
    Append(det, [plate |-> plate, color |-> color, timestamp |-> isoformat(ts),
                 source |-> source, violation |-> violation, reason |-> reason,
                 photo_path |-> photo_path, origen |-> origen])

\* insert_violation(...) on the table vio: the table it commits
insert_violation(vio, plate, color, ts, reason, photo_path, origen) ==
    Append(vio, [plate |-> plate, color |-> color, timestamp |-> isoformat(ts),
                 reason |-> reason, photo_path |-> photo_path, origen |-> origen])

\* get_plate_status(plate)
get_plate_status(veh, vio, plate) ==
    [ plate      |-> plate,
      color      |-> IF plate \in DOMAIN veh THEN Some(veh[plate].color) ELSE None,
      first_seen |-> IF plate \in DOMAIN veh THEN Some(veh[plate].first_seen) ELSE None,
      last_seen  |-> IF plate \in DOMAIN veh THEN Some(veh[plate].last_seen) ELSE None,
      violations |-> Cardinality({i \in 1..Len(vio) : vio[i].plate = plate}) ]

\* plate.upper().replace(" ", "").replace("-", "")
RECURSIVE Normalizar(_)
Normalizar(plate) ==
    IF plate = <<>> THEN <<>>
    ELSE IF Head(plate) \in {" ", "-"} THEN Normalizar(Tail(plate))
    ELSE <<upper(Head(plate))>> \o Normalizar(Tail(plate))

\* get_conn() around the statements of one db function (db.py 12-20): what
\* they wrote (despues) is committed when neither a statement nor the commit
\* raises; otherwise close() discards it and the table stays as it was
\* (antes).  falla is where the call fails: "no", "execute" or "commit".
get_conn_autocommit(antes, despues, falla) == IF falla = "execute" THEN antes ELSE despues

get_conn(antes, despues, falla) == IF falla = "no" THEN despues ELSE antes

\* how a db function ends: it has no except clause, the error goes to the caller
Salida_silenciosa(falla) == "return"

Salida(falla) == IF falla = "no" THEN "return" ELSE "raise"

\* api/main.py placa_status and chatbot.py _obtener_estado_completo_placa, up
\* to the "registrada" key of the answer
placa_status_sin_multas(veh, vio, plate) ==
    LET plate_up == [i \in 1..Len(plate) |-> upper(plate[i])]
        st == get_plate_status(veh, vio, plate_up)
    IN  [plate |-> plate_up, registrada |-> ~(st.first_seen = None /\ st.last_seen = None)]

placa_status(veh, vio, plate) ==
    LET plate_up == [i \in 1..Len(plate) |-> upper(plate[i])]
        st == get_plate_status(veh, vio, plate_up)
    IN  [plate |-> plate_up,
         registrada |-> ~(st.first_seen = None /\ st.last_seen = None /\ st.violations = 0)]

_obtener_estado_completo_placa(veh, vio, placa) ==
    LET plate_up == [i \in 1..Len(placa) |-> upper(placa[i])]
        st == get_plate_status(veh, vio, plate_up)
    IN  [plate |-> plate_up,
         registrada |-> ~(st.first_seen = None /\ st.last_seen = None /\ st.violations = 0)]

\* api/main.py _ultimo_digito_local and chatbot.py _ultimo_digito: the last
\* decimal digit of the plate, None when it has none
_ultimo_digito_local(placa) == UltimoDigitoDesde(placa, Len(placa))

chatbot_ultimo_digito(placa) == UltimoDigitoDesde(placa, Len(placa))

\* The answer for a registered plate, its keys puede_circular_hoy,
\* tiene_pico_hoy and en_infraccion; st is what get_plate_status gave, now is
\* _now().  "ValueError" when puede_circular_pasto raises, which neither
\* function catches.  api/main.py placa_status from line 165:
st_enriched(c, st, plate_up, now) ==
    LET r == puede_circular_pasto(c, plate_up, Some(now), now)
        detectada == st.last_seen # None
        fecha == Fecha(now)
        hora_time == Hora(now)
        dia_es == DIA_MAP[StrftimeA(fecha)]
        ultimo == _ultimo_digito_local(plate_up)
        restringidos_hoy == Get(c.RESTRICCIONES, dia_es, {})
        es_fin_de_semana == dia_es \in {"SABADO", "DOMINGO"}
        es_festivo == fecha \in c.FESTIVOS
        tiene_pico_hoy ==
            IF es_fin_de_semana \/ es_festivo \/ ultimo = None THEN FALSE
            ELSE Val(ultimo) \in restringidos_hoy
        en_infraccion ==
            IF ~tiene_pico_hoy THEN FALSE
            ELSE IF hora_time < c.HORARIO_INICIO THEN FALSE
            ELSE IF hora_time > c.HORARIO_FIN THEN FALSE
            ELSE detectada
    IN  IF r.ret = "ValueError" THEN None
        ELSE Some([puede_circular_hoy |-> r.ret = "True", tiene_pico_hoy |-> tiene_pico_hoy,
                   en_infraccion |-> en_infraccion])

\* chatbot.py _obtener_estado_completo_placa from line 364:
estado_completo(c, st, plate_up, now) ==
    LET r == puede_circular_pasto(c, plate_up, Some(now), now)
        detectada == st.last_seen # None
        fecha == Fecha(now)
        hora_time == Hora(now)
        dia_es == DIA_MAP[StrftimeA(fecha)]
        ultimo == chatbot_ultimo_digito(plate_up)
        restringidos_hoy == Get(c.RESTRICCIONES, dia_es, {})
        es_fin_de_semana == dia_es \in {"SABADO", "DOMINGO"}
        es_festivo == fecha \in c.FESTIVOS
        tiene_pico_hoy ==
            IF es_fin_de_semana \/ es_festivo \/ ultimo = None THEN FALSE
            ELSE Val(ultimo) \in restringidos_hoy
        en_infraccion ==
            IF ~tiene_pico_hoy THEN FALSE
            ELSE IF hora_time < c.HORARIO_INICIO THEN FALSE
            ELSE IF hora_time > c.HORARIO_FIN THEN FALSE
            ELSE detectada
    IN  IF r.ret = "ValueError" THEN None
        ELSE Some([puede_circular_hoy |-> r.ret = "True", tiene_pico_hoy |-> tiene_pico_hoy,
                   en_infraccion |-> en_infraccion])

\* chatbot.py _responder_chat_reglas, the branch that answers on which days
\* a plate is restricted (lines 771-805): "if not ultimo" is true for None
\* and for the integer 0
cuando_pico(c, placa) ==
    LET ultimo == chatbot_ultimo_digito(placa)
        not_ultimo == IF ultimo = None THEN TRUE ELSE Val(ultimo) = 0
        dias == IF ultimo = None THEN {}
                ELSE {dia \in DOMAIN c.RESTRICCIONES : Val(ultimo) \in c.RESTRICCIONES[dia]}
    IN  IF not_ultimo THEN [tipo |-> "error", dias |-> {}]
        ELSE IF dias # {} THEN [tipo |-> "cuando_pico", dias |-> dias]
        ELSE [tipo |-> "sin_restriccion", dias |-> {}]

\* init_db: the columns of the table violations
ColumnasViolations == {"id", "plate", "color", "timestamp", "reason", "photo_path"}

\* SELECT <columna> FROM violations WHERE plate = ? ORDER BY <columna> DESC
\* LIMIT 1, then fetchone(): the statement raises when the table has no such
\* column, otherwise the row is the greatest value of the plate's rows, or
\* no row
SeleccionarUltima(vio, columna, plate) ==
    LET filas == {i \in 1..Len(vio) : vio[i].plate = plate}
    IN  IF columna \notin ColumnasViolations THEN [error |-> TRUE, row |-> None]
        ELSE IF filas = {} THEN [error |-> FALSE, row |-> None]
        ELSE [error |-> FALSE,
              row |-> Some(vio[CHOOSE i \in filas :
                                  \A k \in filas : TextoMenorIgual(vio[k][columna],
                                                                   vio[i][columna])][columna])]

\* chatbot.py _ultima_infraccion_bd(placa): the query selects the column ts;
\* an exception of the query is caught and answered with None
_ultima_infraccion_bd(vio, placa) ==
    LET r == SeleccionarUltima(vio, "ts", [i \in 1..Len(placa) |-> upper(placa[i])])
    IN  IF r.error THEN None
        ELSE IF r.row = None THEN None
        ELSE Some(fromisoformat(Val(r.row)))

-----------------------------------------------------------------------------
(* Inputs                                                                   *)

\* Rule tables that differ from the source's in every table: an override
\* entry on a holiday (2025-11-17, 2025-11-24) and on a Saturday (2025-11-22),
\* another weekday table, another window.
ConfiguracionAlterna ==
    [ HORARIO_INICIO |-> time(6, 0, 0),
      HORARIO_FIN    |-> time(20, 0, 0),
      RESTRICCIONES  |->
        [d \in {"LUNES", "MARTES", "MIERCOLES", "JUEVES", "VIERNES"} |->
            CASE d = "LUNES"     -> {8, 9}
              [] d = "MARTES"    -> {0, 1}
              [] d = "MIERCOLES" -> {2, 3}
              [] d = "JUEVES"    -> {4, 5}
              [] d = "VIERNES"   -> {6, 7}],
      FESTIVOS       |-> (FESTIVOS_2025 \ {date(2025, 11, 3)}) \cup {date(2025, 11, 24)},
      CALENDARIO     |-> Dict(EntradasCalendario \cup
                              { <<date(2025, 11, 17), {0, 1}>>,
                                <<date(2025, 11, 22), {2, 3}>> }) ]

\* cfg names the tables in force
Configuraciones == {"fuente", "alterna"}
Tablas == IF cfg = "fuente" THEN ConfiguracionFuente ELSE ConfiguracionAlterna

PlacaConDigito(d) == <<"A", "B", "C", "1", "2", d>>
PLACA_BAB89E == <<"B", "A", "B", "8", "9", "E">>
PLACA_SIN_DIGITO == <<"A", "B", "C", "D", "E", "F">>
PLACA_MINUSCULA == <<"a", "b", "c", "0", "0", "2">>

PlacasConsulta ==
    {PlacaConDigito(d) : d \in Digitos} \cup
    {PLACA_BAB89E, PLACA_SIN_DIGITO, PLACA_MINUSCULA}

\* November and December 2025, and a week of January 2026
FechasConsulta ==
    {date(2025, 11, d) : d \in 1..30} \cup {date(2025, 12, d) : d \in 1..31}
    \cup {date(2026, 1, d) : d \in 5..11}

HorasConsulta ==
    { time(0, 0, 0), time(5, 59, 59), time(6, 0, 0), time(7, 29, 59),
      time(7, 30, 0), time(8, 0, 0), time(19, 0, 0), time(19, 0, 1),
      time(19, 1, 0), time(20, 0, 0), time(20, 0, 1), time(23, 59, 59) }

DateTimeDe(f, h) == datetime(f[1], f[2], f[3], 0, 0, 0) + h

\* the clock value the model starts from
RelojInicial == datetime(2025, 11, 25, 7, 29, 55)

Pendiente == [ret |-> "pendiente", motivo |-> ""]

Colores == {"rojo", "desconocido"}

\* what callers of the db API pass: plates as typed, timestamps in any order
PLACA_CON_GUION == <<"a", "b", "c", "-", "1", "2", "2">>
PlacasLlamada == {PlacaConDigito("2"), PLACA_CON_GUION, PLACA_SIN_DIGITO}

\* what the detectors pass to the db functions: the OCR's upper-case
\* alphanumeric text
PlacasGuardadas == {PlacaConDigito("2"), PLACA_SIN_DIGITO}

\* where a db function may fail
PuntosDeFalla == {"no", "execute", "commit"}

TsLlamada ==
    { datetime(2025, 11, 22, 8, 0, 0), datetime(2025, 11, 24, 8, 0, 0),
      datetime(2025, 11, 24, 8, 0, 5) }

\* the plates the chatbot is asked about: what _extraer_placa gives, upper
\* case without hyphen, one for each last digit, and a text without digits
PlacasChat == {PlacaConDigito(d) : d \in Digitos} \cup {PLACA_SIN_DIGITO}

\* the clock while the db API and the status queries are called: Tuesday
\* 2025-11-25 before the window and inside it
RelojesLedger == {RelojInicial, datetime(2025, 11, 25, 8, 0, 0)}

\* calls of the db API in one behaviour
MaxLlamadas == 2

\* what the OCR reads off a plate crop (ocr_placa: alphanumeric, upper case,
\* or None) and the colour get_vehicle_color gives
PLACA_CORTA == <<"A", "B", "1">>
OcrInvalido == {None, Some(PLACA_CORTA)}
PlacasCamara == {PlacaConDigito("4"), PlacaConDigito("5"), PLACA_SIN_DIGITO}

\* the plates in front of the camera: one car and a text without digits
\* under the source's tables, two cars under the other tables
PlacasEnEscena ==
    IF cfg = "fuente" THEN {PlacaConDigito("4"), PLACA_SIN_DIGITO}
    ELSE {PlacaConDigito("4"), PlacaConDigito("5")}
ColoresCamara == {"rojo"}

\* the instants the clock moves through: Tuesday 2025-11-25 around 07:30
RelojCamara ==
    { datetime(2025, 11, 25, 7, 29, 55), datetime(2025, 11, 25, 7, 30, 0),
      datetime(2025, 11, 25, 7, 30, 10), datetime(2025, 11, 25, 7, 30, 11) }

\* The rule tables, the clock and the ledger live_camera starts with: the
\* source's tables on that Tuesday with the ledger an earlier run left (a
\* restart 10 s after that run persisted a violation), the source's tables
\* on Saturday 2025-11-29 and the other tables on Thursday 2025-12-18 (when
\* they restrict digits 4 and 5 and the source's do not), the one with an
\* empty ledger, the other with a ledger where one of the two cars is Known.
Escenarios ==
    { <<"fuente", RelojInicial, "previo">>,
      <<"fuente", datetime(2025, 11, 25, 7, 30, 10), "multado">>,
      <<"fuente", datetime(2025, 11, 29, 8, 0, 0), "vacio">>,
      <<"alterna", datetime(2025, 12, 18, 8, 0, 0), "otra">> }

\* plates live_camera processes in one behaviour, and storage failures in it
MaxEventos == 3
MaxFallas == 1

\* The locals of the loop body.  id numbers the event; conocida (whether a
\* vehicles row existed when the event began), ret (what the rule gave), pasa
\* (the cooldown let the violation through) and fallas (the calls that
\* raised) are kept for the properties only.
EvLibre ==
    [id |-> 0, plate_text |-> <<>>, color |-> "", ts |-> 0,
     registered_before |-> FALSE, violation |-> FALSE, motivo |-> "",
     photo_path |-> None, conocida |-> FALSE, ret |-> "", pasa |-> FALSE,
     fallas |-> {}]

\* a call of the db API or of a status query: op is the function called,
\* falla where it failed, respuesta what a query answered
LlamadaLibre ==
    [paso |-> "libre", fin |-> "", plate |-> <<>>, color |-> "", ts |-> 0,
     es_violacion |-> FALSE, motivo |-> "", op |-> "", falla |-> "no",
     respuesta |-> None]

-----------------------------------------------------------------------------
(* The rule alone: one call of puede_circular_pasto per behaviour           *)

InitLedger ==
    /\ vehicles = <<>>
    /\ detections = <<>>
    /\ violations = <<>>

InitCamara ==
    /\ cooldown = <<>>
    /\ pc = "frame"
    /\ ev = EvLibre
    /\ n_eventos = 0
    /\ n_fallas = 0
    /\ historial = <<>>

InitLlamada ==
    /\ llamada = LlamadaLibre
    /\ n_llamadas = 0

InitRegla ==
    /\ cfg \in Configuraciones
    /\ reloj \in {RelojInicial, datetime(2025, 11, 22, 8, 0, 0)}
    /\ consulta \in
         [placa : PlacasConsulta,
          fecha_hora : {None} \cup
                       {Some(DateTimeDe(f, h)) : f \in FechasConsulta, h \in HorasConsulta}]
    /\ veredicto = Pendiente
    /\ InitLedger /\ InitCamara /\ InitLlamada

\* ok, detalle = puede_circular_pasto(placa, fecha_hora)
Consultar ==
    /\ veredicto = Pendiente
    /\ veredicto' = puede_circular_pasto(Tablas, consulta.placa, consulta.fecha_hora, reloj)
    /\ UNCHANGED <<cfg, reloj, consulta, varsLedger, varsCamara, varsLlamada>>

NextRegla == Consultar

SpecRegla == InitRegla /\ [][NextRegla]_vars

-----------------------------------------------------------------------------
(* The ledger under its callers: upsert_vehicle and                         *)
(* registrar_deteccion_y_multa, called with any plate and timestamp; a      *)
(* statement that fails raises and its transaction commits nothing (db.py,  *)
(* get_conn).                                                               *)

InitLedgerSpec ==
    /\ cfg = "fuente"
    /\ reloj \in RelojesLedger
    /\ consulta = [placa |-> <<>>, fecha_hora |-> None]
    /\ veredicto = Pendiente
    /\ InitLedger /\ InitCamara /\ InitLlamada

\* upsert_vehicle(plate, color, ts), called directly
LlamarUpsertVehicle ==
    \E plate \in PlacasGuardadas, color \in Colores, ts \in TsLlamada, falla \in PuntosDeFalla :
        /\ llamada.paso = "libre"
        /\ n_llamadas < MaxLlamadas
        /\ n_llamadas' = n_llamadas + 1
        /\ vehicles' = get_conn(vehicles, upsert_vehicle(vehicles, plate, color, ts), falla)
        /\ llamada' = [LlamadaLibre EXCEPT !.op = "upsert_vehicle", !.fin = Salida(falla),
                                          !.falla = falla]
        /\ UNCHANGED <<cfg, reloj, varsRegla, detections, violations, varsCamara>>

\* insert_detection(...), called directly
LlamarInsertDetection ==
    \E plate \in PlacasGuardadas, violation \in BOOLEAN, falla \in PuntosDeFalla :
        /\ llamada.paso = "libre"
        /\ n_llamadas < MaxLlamadas
        /\ n_llamadas' = n_llamadas + 1
        /\ detections' =
             get_conn(detections,
                      insert_detection(detections, plate, "rojo", reloj, "video",
                                       violation, "", None, 0),
                      falla)
        /\ llamada' = [LlamadaLibre EXCEPT !.op = "insert_detection", !.fin = Salida(falla),
                                          !.falla = falla]
        /\ UNCHANGED <<cfg, reloj, varsRegla, vehicles, violations, varsCamara>>

\* insert_violation(...), called directly
LlamarInsertViolation ==
    \E plate \in PlacasGuardadas, falla \in PuntosDeFalla :
        /\ llamada.paso = "libre"
        /\ n_llamadas < MaxLlamadas
        /\ n_llamadas' = n_llamadas + 1
        /\ violations' =
             get_conn(violations,
                      insert_violation(violations, plate, "rojo", reloj, "", None, 0),
                      falla)
        /\ llamada' = [LlamadaLibre EXCEPT !.op = "insert_violation", !.fin = Salida(falla),
                                          !.falla = falla]
        /\ UNCHANGED <<cfg, reloj, varsRegla, vehicles, detections, varsCamara>>

\* GET /placa/{plate}/status and the chatbot's status of a plate, at
\* _now() = the clock; the query of get_plate_status may raise, and so may
\* puede_circular_pasto for a registered plate
ConsultarPlaca ==
    \E plate \in PlacasLlamada, via \in {"placa_status", "_obtener_estado_completo_placa"},
       falla \in BOOLEAN :
        LET base == IF via = "placa_status"
                    THEN placa_status(vehicles, violations, plate)
                    ELSE _obtener_estado_completo_placa(vehicles, violations, plate)
            st == get_plate_status(vehicles, violations, base.plate)
            detalle == IF via = "placa_status"
                       THEN st_enriched(Tablas, st, base.plate, reloj)
                       ELSE estado_completo(Tablas, st, base.plate, reloj)
            raises == falla \/ (base.registrada /\ detalle = None)
        IN  /\ llamada.paso = "libre"
            /\ n_llamadas < MaxLlamadas
            /\ n_llamadas' = n_llamadas + 1
            /\ llamada' =
                 [LlamadaLibre EXCEPT
                    !.op = via, !.plate = plate,
                    !.fin = IF raises THEN "raise" ELSE "return",
                    !.respuesta =
                        IF raises THEN None
                        ELSE Some([plate |-> base.plate, registrada |-> base.registrada,
                                   detalle |-> IF base.registrada THEN detalle ELSE None])]
            /\ UNCHANGED <<cfg, reloj, varsRegla, varsLedger, varsCamara>>

\* chatbot.py _ultima_infraccion_bd(placa), as the chatbot's plate answer
\* calls it
ConsultarUltimaInfraccion ==
    \E plate \in PlacasLlamada :
        /\ llamada.paso = "libre"
        /\ n_llamadas < MaxLlamadas
        /\ n_llamadas' = n_llamadas + 1
        /\ llamada' =
             [LlamadaLibre EXCEPT
                !.op = "_ultima_infraccion_bd", !.plate = plate, !.fin = "return",
                !.respuesta = Some([ultima |-> _ultima_infraccion_bd(violations, plate)])]
        /\ UNCHANGED <<cfg, reloj, varsRegla, varsLedger, varsCamara>>

\* the chatbot is asked on which days a plate is restricted
PreguntarCuandoPico ==
    \E placa \in PlacasChat :
        /\ llamada.paso = "libre"
        /\ n_llamadas < MaxLlamadas
        /\ n_llamadas' = n_llamadas + 1
        /\ llamada' =
             [LlamadaLibre EXCEPT
                !.op = "_responder_chat_reglas", !.plate = placa, !.fin = "return",
                !.respuesta = Some(cuando_pico(Tablas, placa))]
        /\ UNCHANGED <<cfg, reloj, varsRegla, varsLedger, varsCamara>>

\* line 134: es_violacion = not puede, on what puede_circular_pasto returned
es_violacion_invertida(r) == r.ret = "True"

es_violacion(r) == r.ret = "False"

\* registrar_deteccion_y_multa, lines 123-134: normalise, evaluate the rule
RegistrarEvaluar ==
    \E plate \in PlacasLlamada, color \in Colores, ts \in TsLlamada :
        LET norm_plate == Normalizar(plate)
            r == puede_circular_pasto(Tablas, norm_plate, Some(ts), reloj)
        IN  /\ llamada.paso = "libre"
            /\ n_llamadas < MaxLlamadas
            /\ n_llamadas' = n_llamadas + 1
            /\ llamada' =
                 IF r.ret = "ValueError"
                 THEN [LlamadaLibre EXCEPT !.op = "registrar_deteccion_y_multa",
                                           !.fin = "raise", !.plate = norm_plate,
                                           !.color = color, !.ts = ts]
                 ELSE [LlamadaLibre EXCEPT !.op = "registrar_deteccion_y_multa",
                                           !.paso = "upsert", !.plate = norm_plate,
                                           !.color = color, !.ts = ts,
                                           !.es_violacion = es_violacion(r),
                                           !.motivo = r.motivo]
            /\ UNCHANGED <<cfg, reloj, varsRegla, varsLedger, varsCamara>>

\* line 137: upsert_vehicle(norm_plate, color, ts)
RegistrarUpsert ==
    \E falla \in BOOLEAN :
        /\ llamada.paso = "upsert"
        /\ vehicles' = IF falla THEN vehicles
                       ELSE upsert_vehicle(vehicles, llamada.plate, llamada.color, llamada.ts)
        /\ llamada' = IF falla THEN [llamada EXCEPT !.paso = "libre", !.fin = "raise"]
                      ELSE [llamada EXCEPT !.paso = "detection"]
        /\ UNCHANGED <<cfg, reloj, varsRegla, detections, violations, varsCamara, n_llamadas>>

\* lines 140-149: insert_detection(...)
RegistrarDetection ==
    \E falla \in BOOLEAN :
        /\ llamada.paso = "detection"
        /\ detections' =
             IF falla THEN detections
             ELSE insert_detection(detections, llamada.plate, llamada.color, llamada.ts,
                                   "api", llamada.es_violacion, llamada.motivo, None, 0)
        /\ llamada' =
             IF falla THEN [llamada EXCEPT !.paso = "libre", !.fin = "raise"]
             ELSE IF llamada.es_violacion THEN [llamada EXCEPT !.paso = "violation"]
             ELSE [llamada EXCEPT !.paso = "libre", !.fin = "return"]
        /\ UNCHANGED <<cfg, reloj, varsRegla, vehicles, violations, varsCamara, n_llamadas>>

\* lines 152-159: insert_violation(...)
RegistrarViolation ==
    \E falla \in BOOLEAN :
        /\ llamada.paso = "violation"
        /\ violations' =
             IF falla THEN violations
             ELSE insert_violation(violations, llamada.plate, llamada.color, llamada.ts,
                                   llamada.motivo, None, 0)
        /\ llamada' = [llamada EXCEPT !.paso = "libre",
                                      !.fin = IF falla THEN "raise" ELSE "return"]
        /\ UNCHANGED <<cfg, reloj, varsRegla, vehicles, detections, varsCamara, n_llamadas>>

NextLedger ==
    \/ LlamarUpsertVehicle
    \/ LlamarInsertDetection
    \/ LlamarInsertViolation
    \/ ConsultarPlaca
    \/ ConsultarUltimaInfraccion
    \/ PreguntarCuandoPico
    \/ RegistrarEvaluar
    \/ RegistrarUpsert
    \/ RegistrarDetection
    \/ RegistrarViolation

SpecLedger == InitLedgerSpec /\ [][NextLedger]_vars

-----------------------------------------------------------------------------
(* detector/live_camera.py: the loop body, one plate box at a time.  Each   *)
(* db call is a transaction of its own, so each is a step; a call that      *)
(* fails raises, commits nothing, and the loop's except clause goes on.     *)

COOLDOWN_SEC == 10

\* whether a db call may fail now, and the failure count after it
Fallas == IF n_fallas < MaxFallas THEN BOOLEAN ELSE {FALSE}
Contar(falla) == n_fallas' = IF falla THEN n_fallas + 1 ELSE n_fallas

\* The database file outlives the process: live_camera starts on an empty
\* ledger, or on the one an earlier run left: after its first sighting of a
\* plate, or after it also persisted a violation for the plate at 07:30:00
\* and ended.
TsPrevio == datetime(2025, 11, 24, 8, 0, 0)
TsMultaPrevia == datetime(2025, 11, 25, 7, 30, 0)

LedgerPrevio ==
    /\ vehicles = upsert_vehicle(<<>>, PlacaConDigito("4"), "rojo", TsPrevio)
    /\ detections = insert_detection(<<>>, PlacaConDigito("4"), "rojo", TsPrevio,
                                     "<live_camera>", FALSE, "NO_REGISTRADO", None, 0)
    /\ violations = <<>>

LedgerOtraPlaca ==
    /\ vehicles = upsert_vehicle(<<>>, PlacaConDigito("5"), "rojo", TsPrevio)
    /\ detections = insert_detection(<<>>, PlacaConDigito("5"), "rojo", TsPrevio,
                                     "<live_camera>", FALSE, "NO_REGISTRADO", None, 0)
    /\ violations = <<>>

FotoPrevia == Some(<<PlacaConDigito("4"), isoformat(TsMultaPrevia)>>)

LedgerMultado ==
    /\ vehicles = upsert_vehicle(upsert_vehicle(<<>>, PlacaConDigito("4"), "rojo", TsPrevio),
                                 PlacaConDigito("4"), "rojo", TsMultaPrevia)
    /\ detections =
         insert_detection(
             insert_detection(<<>>, PlacaConDigito("4"), "rojo", TsPrevio,
                              "<live_camera>", FALSE, "NO_REGISTRADO", None, 0),
             PlacaConDigito("4"), "rojo", TsMultaPrevia, "<live_camera>", TRUE,
             "INFRACCION", FotoPrevia, 0)
    /\ violations = insert_violation(<<>>, PlacaConDigito("4"), "rojo", TsMultaPrevia,
                                     "INFRACCION", FotoPrevia, 0)

\* the cooldown map the earlier run held when it ended
CooldownPrevio(ledger) ==
    IF ledger = "multado" THEN PlacaConDigito("4") :> TsMultaPrevia ELSE <<>>

\* line 66, cooldown = {}: what a process starts with, whatever the map of the
\* process before it held
cooldown_persistente(cd) == cd

cooldown_inicial(cd) == <<>>

Init ==
    /\ \E e \in Escenarios :
          /\ cfg = e[1]
          /\ reloj = e[2]
          /\ CASE e[3] = "vacio" -> InitLedger
               [] e[3] = "previo" -> LedgerPrevio
               [] e[3] = "multado" -> LedgerMultado
               [] e[3] = "otra" -> LedgerOtraPlaca
          /\ cooldown = cooldown_inicial(CooldownPrevio(e[3]))
    /\ consulta = [placa |-> <<>>, fecha_hora |-> None]
    /\ veredicto = Pendiente
    /\ pc = "frame"
    /\ ev = EvLibre
    /\ n_eventos = 0
    /\ n_fallas = 0
    /\ historial = <<>>
    /\ InitLlamada

\* The clock advances.  It is read at line 77 and inside
\* puede_circular_pasto(plate_text, None), so it moves before those reads.
Tick ==
    /\ pc = "regla" \/ (pc = "frame" /\ n_eventos < MaxEventos)
    /\ \E t \in RelojCamara : t > reloj /\ reloj' = t
    /\ UNCHANGED <<cfg, varsRegla, varsLedger, varsCamara, varsLlamada>>

\* lines 157-174: the OCR gives no text, or not 6 characters: next box
DescartarLectura ==
    \E plate_text \in OcrInvalido :
        /\ pc = "frame"
        /\ IF plate_text = None THEN TRUE ELSE Len(Val(plate_text)) # 6
        /\ UNCHANGED vars

\* lines 77, 157-181: ts = datetime.now(), a 6-character plate and a colour
LeerPlaca ==
    \E plate_text \in PlacasEnEscena, color \in ColoresCamara :
        /\ pc = "frame"
        /\ n_eventos < MaxEventos
        /\ Len(plate_text) = 6
        /\ n_eventos' = n_eventos + 1
        /\ ev' = [EvLibre EXCEPT !.id = n_eventos + 1, !.plate_text = plate_text,
                                 !.color = color, !.ts = reloj,
                                 !.conocida = plate_text \in DOMAIN vehicles]
        /\ pc' = "status"
        /\ UNCHANGED <<cfg, reloj, varsRegla, varsLedger, cooldown, n_fallas, historial,
                       varsLlamada>>

\* lines 184-189: registered_before = bool(st.get("first_seen")), False when
\* the query raises
registered_before_sin_compuerta(veh, vio, plate_text, falla) == TRUE

registered_before(veh, vio, plate_text, falla) ==
    IF falla THEN FALSE
    ELSE get_plate_status(veh, vio, plate_text).first_seen # None

\* where the loop goes after a db call: its except clause prints and the loop
\* goes on as after a call that returned
tras_except_relanza(falla, siguiente) == IF falla THEN "fin" ELSE siguiente

tras_except(falla, siguiente) == siguiente

\* ev with the call noted among those that raised
ConFalla(e, falla, llamado) ==
    IF falla THEN [e EXCEPT !.fallas = @ \cup {llamado}] ELSE e

ConsultarEstado ==
    \E falla \in Fallas :
        /\ pc = "status"
        /\ ev' = ConFalla([ev EXCEPT !.registered_before =
                                registered_before(vehicles, violations, ev.plate_text, falla)],
                          falla, "get_plate_status")
        /\ pc' = "upsert"
        /\ Contar(falla)
        /\ UNCHANGED <<cfg, reloj, varsRegla, varsLedger, cooldown, n_eventos, historial,
                       varsLlamada>>

\* lines 192-195: upsert_vehicle(plate_text, color, ts)
GuardarVehiculo ==
    \E falla \in Fallas :
        /\ pc = "upsert"
        /\ vehicles' = IF falla THEN vehicles
                       ELSE upsert_vehicle(vehicles, ev.plate_text, ev.color, ev.ts)
        /\ ev' = ConFalla(ev, falla, "upsert_vehicle")
        /\ pc' = tras_except(falla, IF ev.registered_before THEN "regla" ELSE "primera")
        /\ Contar(falla)
        /\ UNCHANGED <<cfg, reloj, varsRegla, detections, violations, cooldown,
                       n_eventos, historial, varsLlamada>>

\* lines 203-235: not registered before: a detection without violation
PrimeraVez ==
    \E falla \in Fallas :
        /\ pc = "primera"
        /\ detections' =
             IF falla THEN detections
             ELSE insert_detection(detections, ev.plate_text, ev.color, ev.ts,
                                   "<live_camera>", FALSE, "NO_REGISTRADO", None, ev.id)
        /\ pc' = tras_except(falla, "frame")
        /\ historial' = Append(historial, ConFalla(ev, falla, "insert_detection"))
        /\ ev' = EvLibre
        /\ Contar(falla)
        /\ UNCHANGED <<cfg, reloj, varsRegla, vehicles, violations, cooldown,
                       n_eventos, varsLlamada>>

\* lines 264-267: the cooldown lets a violation at ts through
permitido_sin_cooldown(cd, plate_text, ts) == TRUE

permitido_no_estricto(cd, plate_text, ts) ==
    plate_text \notin DOMAIN cd \/ ts - cd[plate_text] >= COOLDOWN_SEC

permitido_cualquier_placa(cd, plate_text, ts) == \A p \in DOMAIN cd : ts - cd[p] > COOLDOWN_SEC

permitido(cd, plate_text, ts) ==
    plate_text \notin DOMAIN cd \/ ts - cd[plate_text] > COOLDOWN_SEC

\* lines 264-268: cooldown[plate_text] = ts inside the if that lets the
\* violation through; otherwise the map is left alone
cooldown_tras_siempre(cd, plate_text, ts, pasa) == (plate_text :> ts) @@ cd

cooldown_tras(cd, plate_text, ts, pasa) == IF pasa THEN (plate_text :> ts) @@ cd ELSE cd

\* lines 241-268: the rule at datetime.now(), the reason, the cooldown
EvaluarRegla ==
    LET r == puede_circular_pasto(Tablas, ev.plate_text, None, reloj)
        violation == r.ret = "False"
        motivo_regla == IF r.ret = "ValueError" THEN "ERROR_AL_EVALUAR" ELSE r.motivo
        motivo_violation == IF violation THEN "INFRACCION" ELSE motivo_regla
        pasa == violation /\ permitido(cooldown, ev.plate_text, ev.ts)
    IN  /\ pc = "regla"
        /\ ev' = [ev EXCEPT !.violation = violation, !.motivo = motivo_violation,
                            !.ret = r.ret, !.pasa = pasa]
        /\ cooldown' = cooldown_tras(cooldown, ev.plate_text, ev.ts, pasa)
        /\ pc' = IF pasa THEN "multa" ELSE "deteccion"
        /\ UNCHANGED <<cfg, reloj, varsRegla, varsLedger, n_eventos, n_fallas, historial,
                       varsLlamada>>

\* lines 269-285: the photo, then insert_violation; either may raise
GuardarMulta ==
    \E falla \in {"no"} \cup {f \in {"imwrite", "insert_violation"} : TRUE \in Fallas} :
        /\ pc = "multa"
        /\ ev' = ConFalla([ev EXCEPT !.photo_path = Some(<<ev.plate_text, isoformat(ev.ts)>>)],
                          falla # "no", falla)
        /\ violations' =
             IF falla # "no" THEN violations
             ELSE insert_violation(violations, ev.plate_text, ev.color, ev.ts, ev.motivo,
                                   Some(<<ev.plate_text, isoformat(ev.ts)>>), ev.id)
        /\ pc' = tras_except(falla # "no", "deteccion")
        /\ Contar(falla # "no")
        /\ UNCHANGED <<cfg, reloj, varsRegla, vehicles, detections, cooldown,
                       n_eventos, historial, varsLlamada>>

\* lines 287-299: insert_detection(...)
GuardarDeteccion ==
    \E falla \in Fallas :
        /\ pc = "deteccion"
        /\ detections' =
             IF falla THEN detections
             ELSE insert_detection(detections, ev.plate_text, ev.color, ev.ts,
                                   "<live_camera>", ev.violation, ev.motivo,
                                   ev.photo_path, ev.id)
        /\ pc' = tras_except(falla, "frame")
        /\ historial' = Append(historial, ConFalla(ev, falla, "insert_detection"))
        /\ ev' = EvLibre
        /\ Contar(falla)
        /\ UNCHANGED <<cfg, reloj, varsRegla, vehicles, violations, cooldown,
                       n_eventos, varsLlamada>>

Next ==
    \/ Tick
    \/ DescartarLectura
    \/ LeerPlaca
    \/ ConsultarEstado
    \/ GuardarVehiculo
    \/ PrimeraVez
    \/ EvaluarRegla
    \/ GuardarMulta
    \/ GuardarDeteccion

Spec == Init /\ [][Next]_vars

-----------------------------------------------------------------------------
(* Properties of the rule (SpecRegla)                                       *)

Evaluada == veredicto # Pendiente

\* the date and time the call is about
ConsultaFechaHora == IF consulta.fecha_hora = None THEN reloj ELSE Val(consulta.fecha_hora)
ConsultaFecha == Fecha(ConsultaFechaHora)
ConsultaHora == Hora(ConsultaFechaHora)
ConsultaDia == StrftimeA(ConsultaFecha)

\* the plate's digits, and the last of them
PosDigitos(placa) == {i \in 1..Len(placa) : placa[i] \in Digitos}
TieneDigito(placa) == PosDigitos(placa) # {}
DigitoFinal(placa) ==
    int(placa[CHOOSE i \in PosDigitos(placa) : \A j \in PosDigitos(placa) : j <= i])

FechaExenta == ConsultaDia \in {"SATURDAY", "SUNDAY"} \/ ConsultaFecha \in Tablas.FESTIVOS
TieneOverride == ConsultaFecha \in DOMAIN Tablas.CALENDARIO
DiaLaboral(d) ==
    CASE d = "MONDAY" -> "LUNES" [] d = "TUESDAY" -> "MARTES"
      [] d = "WEDNESDAY" -> "MIERCOLES" [] d = "THURSDAY" -> "JUEVES"
      [] d = "FRIDAY" -> "VIERNES"
DigitosDefault == Tablas.RESTRICCIONES[DiaLaboral(ConsultaDia)]
DigitosEfectivos == IF TieneOverride THEN Tablas.CALENDARIO[ConsultaFecha] ELSE DigitosDefault
EnVentana == Tablas.HORARIO_INICIO <= ConsultaHora /\ ConsultaHora <= Tablas.HORARIO_FIN

\* C3: on a Saturday, a Sunday or a holiday puede_circular_pasto returns True
\* for every last digit and every time, also when the override calendar has
\* an entry for the date.
C3_ExentoSiemprePuede ==
    (Evaluada /\ FechaExenta /\ TieneDigito(consulta.placa))
        => veredicto.ret = "True"

\* a holiday (not a weekend day) with an override entry that holds the
\* plate's digit, inside the window: allowed
C3_Witness ==
    /\ Evaluada /\ TieneDigito(consulta.placa)
    /\ ConsultaFecha \in Tablas.FESTIVOS
    /\ ConsultaDia \notin {"SATURDAY", "SUNDAY"}
    /\ TieneOverride
    /\ DigitoFinal(consulta.placa) \in Tablas.CALENDARIO[ConsultaFecha]
    /\ EnVentana
    /\ veredicto.ret = "True"

\* C4: on a non-exempt date with an override entry the restricted digits are
\* exactly the entry's: the plate is restricted iff its last digit is in the
\* entry and the time is in the window; a digit of the weekday default alone
\* is allowed at every time.
C4_OverrideReemplaza ==
    (Evaluada /\ ~FechaExenta /\ TieneOverride /\ TieneDigito(consulta.placa))
        => (veredicto.ret = "False"
              <=> (DigitoFinal(consulta.placa) \in Tablas.CALENDARIO[ConsultaFecha]
                   /\ EnVentana))
           /\ veredicto.ret \in {"True", "False"}

\* a digit of the weekday default that the override entry leaves out, inside
\* the window: allowed
C4_Witness ==
    /\ Evaluada /\ ~FechaExenta /\ TieneOverride /\ TieneDigito(consulta.placa)
    /\ DigitoFinal(consulta.placa) \in DigitosDefault
    /\ DigitoFinal(consulta.placa) \notin Tablas.CALENDARIO[ConsultaFecha]
    /\ EnVentana
    /\ veredicto.ret = "True"

\* C5: on a non-exempt date, for a last digit in the date's effective set,
\* the plate is restricted exactly when HORARIO_INICIO <= time <= HORARIO_FIN;
\* 07:30:00 and 19:00:00 are restricted, times before and after are allowed.
C5_VentanaInclusiva ==
    (Evaluada /\ ~FechaExenta /\ TieneDigito(consulta.placa)
       /\ DigitoFinal(consulta.placa) \in DigitosEfectivos)
        => /\ veredicto.ret = "False" <=> EnVentana
           /\ veredicto.ret \in {"True", "False"}
           /\ (cfg = "fuente" /\ ConsultaHora \in {time(7, 30, 0), time(19, 0, 0)})
                 => veredicto.ret = "False"
           /\ (cfg = "fuente"
                 /\ (ConsultaHora < time(7, 30, 0) \/ ConsultaHora > time(19, 0, 0)))
                 => veredicto.ret = "True"

\* the source's tables, a restricted digit at 19:00:00 sharp: restricted
C5_Witness ==
    /\ Evaluada /\ ~FechaExenta /\ TieneDigito(consulta.placa)
    /\ cfg = "fuente"
    /\ DigitoFinal(consulta.placa) \in DigitosEfectivos
    /\ ConsultaHora = time(19, 0, 0)
    /\ veredicto.ret = "False"


\* C11: for a plate without a decimal digit puede_circular_pasto raises
\* ValueError at every date and time, never a verdict; for a plate with a
\* digit it gives a verdict, computed from the last digit of the plate.
C11_SinDigitoEsError ==
    Evaluada =>
        IF ~TieneDigito(consulta.placa) THEN veredicto.ret = "ValueError"
        ELSE /\ veredicto.ret \in {"True", "False"}
             /\ veredicto.ret = "False" <=>
                   /\ ~FechaExenta
                   /\ DigitoFinal(consulta.placa) \in DigitosEfectivos
                   /\ EnVentana

\* C23: on 2025-11-18 the override entry is {2, 3}, and a plate whose last
\* digit is 0 is allowed at every time of day, inside the 07:30-19:00 window
\* too.
C23_Noviembre18Digito0 ==
    /\ CALENDARIO_PICO_PLACA_2025[date(2025, 11, 18)] = {2, 3}
    /\ Tablas.CALENDARIO[date(2025, 11, 18)] = {2, 3}
    /\ (Evaluada /\ ConsultaFecha = date(2025, 11, 18) /\ TieneDigito(consulta.placa)
          /\ DigitoFinal(consulta.placa) = 0)
         => veredicto.ret = "True"

\* digit 0 on 2025-11-18 at 07:30:00, under weekday tables that restrict 0 on
\* a Tuesday: allowed
C23_Witness ==
    /\ Evaluada
    /\ ConsultaFecha = date(2025, 11, 18)
    /\ TieneDigito(consulta.placa)
    /\ DigitoFinal(consulta.placa) = 0
    /\ 0 \in DigitosDefault
    /\ ConsultaHora = time(7, 30, 0)
    /\ veredicto.ret = "True"

-----------------------------------------------------------------------------
(* Properties of the ledger under its callers (SpecLedger)                  *)

\* C6: over upsert_vehicle calls with any timestamps, every vehicles row
\* keeps the first_seen of its first call and its last_seen never decreases
\* from one call to the next.
C6_UpsertMonotono ==
    [][\A p \in DOMAIN vehicles :
          /\ p \in DOMAIN vehicles'
          /\ vehicles'[p].first_seen = vehicles[p].first_seen
          /\ TextoMenorIgual(vehicles[p].last_seen, vehicles'[p].last_seen)]_vars

\* C7: in every ledger state every vehicles row has first_seen <= last_seen,
\* whatever order the timestamps arrive in.
C7_PrimeroAntesQueUltimo ==
    \A p \in DOMAIN vehicles :
        TextoMenorIgual(vehicles[p].first_seen, vehicles[p].last_seen)

\* C15: a plate that has a vehicles row has one in every later state, and
\* the status queries keep reporting it as registered: no step deletes a row.
C15_ConocidaParaSiempre ==
    [][\A p \in DOMAIN vehicles :
          /\ p \in DOMAIN vehicles'
          /\ get_plate_status(vehicles', violations', p).first_seen # None
          /\ placa_status(vehicles', violations', p).registrada
          /\ _obtener_estado_completo_placa(vehicles', violations', p).registrada]_vars

\* a Known plate after a later upsert_vehicle that committed for it
C15_Witness ==
    \E p \in DOMAIN vehicles :
        /\ vehicles[p].first_seen # vehicles[p].last_seen
        /\ llamada.op = "upsert_vehicle" /\ llamada.fin = "return"

\* a status query has answered
Respondida ==
    /\ llamada.op \in {"placa_status", "_obtener_estado_completo_placa"}
    /\ llamada.fin = "return"

MultasDe(plate) == {i \in 1..Len(violations) : violations[i].plate = plate}

\* C16: a status query answers "not registered" iff the ledger holds no
\* vehicles row and no violations row for the plate it asked about (the
\* plate in upper case, as the ledger stores it).
C16_NoRegistradaSii ==
    Respondida =>
        LET r == Val(llamada.respuesta)
        IN  /\ r.plate = [i \in 1..Len(llamada.plate) |-> upper(llamada.plate[i])]
            /\ ~r.registrada <=> (r.plate \notin DOMAIN vehicles /\ MultasDe(r.plate) = {})

\* a plate with a violations row and no vehicles row: reported as registered
C16_Witness ==
    /\ Respondida
    /\ Val(llamada.respuesta).registrada
    /\ Val(llamada.respuesta).plate \notin DOMAIN vehicles
    /\ MultasDe(Val(llamada.respuesta).plate) # {}

\* the greatest timestamp among the violations rows of a plate
UltimaMulta(plate) ==
    LET ts == {fromisoformat(violations[i].timestamp) : i \in MultasDe(plate)}
    IN  CHOOSE t \in ts : \A u \in ts : u <= t

\* C21: the last-violation query answers the greatest timestamp among the
\* plate's violations rows when the plate has one, and none only when the
\* plate has no violations row.
C21_UltimaInfraccion ==
    (llamada.op = "_ultima_infraccion_bd" /\ llamada.fin = "return") =>
        LET plate == [i \in 1..Len(llamada.plate) |-> upper(llamada.plate[i])]
            r == Val(llamada.respuesta).ultima
        IN  IF MultasDe(plate) = {} THEN r = None
            ELSE r = Some(UltimaMulta(plate))

\* a step that is one direct call of a db write function
EsLlamada(ops) == n_llamadas' = n_llamadas + 1 /\ llamada'.op \in ops

\* the table afterwards is the table before plus one row at the end
UnaFilaMas(antes, despues) ==
    Len(despues) = Len(antes) + 1 /\ SubSeq(despues, 1, Len(antes)) = antes

\* C19: a call of upsert_vehicle, insert_detection or insert_violation that
\* raises leaves the three tables as they were; one that returns has made
\* all of its row changes, in its own table only.
C19_EscrituraAtomica ==
    [][EsLlamada({"upsert_vehicle", "insert_detection", "insert_violation"}) =>
          IF llamada'.fin = "raise" THEN UNCHANGED varsLedger
          ELSE CASE llamada'.op = "upsert_vehicle" ->
                      /\ UNCHANGED <<detections, violations>>
                      /\ \E plate \in PlacasGuardadas, color \in Colores, ts \in TsLlamada :
                            vehicles' = upsert_vehicle(vehicles, plate, color, ts)
                 [] llamada'.op = "insert_detection" ->
                      /\ UNCHANGED <<vehicles, violations>>
                      /\ UnaFilaMas(detections, detections')
                 [] llamada'.op = "insert_violation" ->
                      /\ UNCHANGED <<vehicles, detections>>
                      /\ UnaFilaMas(violations, violations')]_vars

\* upsert_vehicle on a table that has rows, failing at the commit
C19_Witness ==
    /\ llamada.op = "upsert_vehicle"
    /\ llamada.falla = "commit" /\ llamada.fin = "raise"
    /\ vehicles # <<>>

\* C20: a call of insert_detection or insert_violation during which the
\* storage fails raises to its caller, and one that returns has appended
\* exactly one row.
C20_NuncaEnSilencio ==
    [][EsLlamada({"insert_detection", "insert_violation"}) =>
          /\ llamada'.falla # "no" => llamada'.fin = "raise"
          /\ llamada'.fin = "return" =>
                IF llamada'.op = "insert_detection"
                THEN UnaFilaMas(detections, detections')
                ELSE UnaFilaMas(violations, violations')]_vars

\* insert_detection failing in its statement: raised
C20_Witness ==
    /\ llamada.op = "insert_detection"
    /\ llamada.falla = "execute" /\ llamada.fin = "raise"

\* a step of a call of registrar_deteccion_y_multa
PasoRegistrar(de, a) ==
    /\ llamada.op = "registrar_deteccion_y_multa"
    /\ llamada.paso = de
    /\ llamada'.paso = a

\* C27: a call of registrar_deteccion_y_multa returns only after it upserted
\* the vehicles row of the normalised plate, appended one detections row
\* whose violation flag is true exactly when puede_circular_pasto gives False
\* for the plate at ts, and appended one violations row if the flag is true
\* and none if it is false; no step of the call writes anything else.
C27_RegistrarCompleto ==
    [][LET no_puede ==
               puede_circular_pasto(Tablas, llamada.plate, Some(llamada.ts), reloj).ret = "False"
           fila == [plate |-> llamada.plate, color |-> llamada.color,
                    timestamp |-> isoformat(llamada.ts), source |-> "api",
                    violation |-> no_puede, reason |-> llamada.motivo,
                    photo_path |-> None, origen |-> 0]
       IN  /\ PasoRegistrar("upsert", "detection") =>
                /\ llamada.plate \in DOMAIN vehicles'
                /\ vehicles'[llamada.plate].last_seen = isoformat(llamada.ts)
                /\ llamada.plate \notin DOMAIN vehicles =>
                      vehicles'[llamada.plate].first_seen = isoformat(llamada.ts)
                /\ UNCHANGED <<detections, violations>>
           /\ (PasoRegistrar("detection", "violation")
                 \/ (PasoRegistrar("detection", "libre") /\ llamada'.fin = "return")) =>
                /\ detections' = Append(detections, fila)
                /\ llamada'.paso = "violation" <=> no_puede
                /\ UNCHANGED <<vehicles, violations>>
           /\ (PasoRegistrar("violation", "libre") /\ llamada'.fin = "return") =>
                /\ no_puede
                /\ violations' = Append(violations,
                       [plate |-> llamada.plate, color |-> llamada.color,
                        timestamp |-> isoformat(llamada.ts), reason |-> llamada.motivo,
                        photo_path |-> None, origen |-> 0])
                /\ UNCHANGED <<vehicles, detections>>
           /\ (llamada'.op = "registrar_deteccion_y_multa" /\ llamada'.fin = "return"
                 /\ llamada.paso # "libre") =>
                llamada.paso \in {"detection", "violation"}
           /\ (llamada'.op = "registrar_deteccion_y_multa" /\ llamada'.fin = "return"
                 /\ llamada.paso = "libre") => UNCHANGED llamada]_vars

\* a call at an instant when the rule restricts the plate has returned: one
\* detections row with the flag and one violations row, both for the
\* normalised plate, and its vehicles row
C27_Witness ==
    /\ llamada.op = "registrar_deteccion_y_multa" /\ llamada.fin = "return"
    /\ llamada.es_violacion
    /\ llamada.plate = PlacaConDigito("2")
    /\ Len(detections) = 1 /\ detections[1].violation
    /\ detections[1].plate = llamada.plate
    /\ Len(violations) = 1 /\ violations[1].plate = llamada.plate
    /\ violations[1].timestamp = isoformat(llamada.ts)
    /\ llamada.plate \in DOMAIN vehicles

\* C28: in the answer for a registered plate, en_infraccion implies that
\* puede_circular_hoy is false, and tiene_pico_hoy is true exactly when the
\* date is not exempt and the plate's last digit is in the digits
\* puede_circular_pasto applies to the date (the override entry when there is
\* one, else the weekday's).
C28_EstadoUsaOverride ==
    (Respondida /\ Val(llamada.respuesta).registrada) =>
        LET r == Val(llamada.respuesta)
            d == Val(r.detalle)
        IN  /\ d.en_infraccion => ~d.puede_circular_hoy
            /\ d.tiene_pico_hoy <=>
                 (~FechaExenta /\ TieneDigito(r.plate)
                    /\ DigitoFinal(r.plate) \in DigitosEfectivos)

\* C30: for a plate with a decimal digit, 0 included, the chatbot's answer
\* lists exactly the weekdays whose default digits contain the plate's last
\* digit; it answers that the digit could not be identified only for a
\* plate without any digit.
C30_DiasDeRestriccion ==
    (llamada.op = "_responder_chat_reglas" /\ llamada.fin = "return") =>
        LET r == Val(llamada.respuesta)
        IN  IF TieneDigito(llamada.plate)
            THEN /\ r.tipo # "error"
                 /\ r.dias = {dia \in DOMAIN Tablas.RESTRICCIONES :
                                 DigitoFinal(llamada.plate) \in Tablas.RESTRICCIONES[dia]}
            ELSE r.tipo = "error"

-----------------------------------------------------------------------------
(* Properties of the live_camera loop (Spec)                                *)

\* the rows of a table that an event wrote
FilasDe(tabla, id) == {i \in 1..Len(tabla) : tabla[i].origen = id}

\* the finished events
Eventos == 1..Len(historial)

ParRestringido(a, b) ==
    /\ a < b
    /\ historial[a].plate_text = historial[b].plate_text
    /\ historial[a].conocida /\ historial[b].conocida
    /\ historial[a].ret = "False" /\ historial[b].ret = "False"
    /\ historial[b].ts - historial[a].ts \in 0..COOLDOWN_SEC

MultasDelPar(a, b) ==
    FilasDe(violations, historial[a].id) \cup FilasDe(violations, historial[b].id)

C8_MultaConDeteccion ==
    \A i \in 1..Len(violations) :
        \E j \in 1..Len(detections) :
            /\ detections[j].plate = violations[i].plate
            /\ detections[j].timestamp = violations[i].timestamp
            /\ detections[j].violation

C10_SinDigitoRechazada ==
    [][(ev.id # 0 /\ ~TieneDigito(ev.plate_text)) => UNCHANGED varsLedger]_vars


\* C12: for a Known plate whose event reaches the rule, the violation flag of
\* its detections row equals the rule's verdict at the event's own timestamp,
\* the one stored in the row.
C12_ReglaEnTimestamp ==
    \A a \in Eventos :
        LET h == historial[a]
        IN  (h.conocida /\ h.registered_before) =>
                \A j \in FilasDe(detections, h.id) :
                    detections[j].violation <=>
                        puede_circular_pasto(Tablas, h.plate_text, Some(h.ts), h.ts).ret = "False"


\* the finished events before a, for the same plate, that the cooldown let
\* through, and the last of them
Permitidos(a) ==
    {b \in 1..(a - 1) : historial[b].plate_text = historial[a].plate_text
                          /\ historial[b].pasa}
UltimoPermitido(a) == CHOOSE b \in Permitidos(a) : \A c \in Permitidos(a) : c <= b

\* the photo write and the violation insert of a finished event went through
MultaEscrita(h) == h.fallas \cap {"imwrite", "insert_violation"} = {}

MultasDeUnaPlaca ==
    {par \in (1..Len(violations)) \X (1..Len(violations)) :
        /\ par[1] < par[2]
        /\ violations[par[1]].origen # 0 /\ violations[par[2]].origen # 0
        /\ violations[par[1]].plate = violations[par[2]].plate}

Distancia(x, y) == IF x >= y THEN x - y ELSE y - x

\* C14: within one run, any two violations rows of the same plate have
\* timestamps more than 10 s apart.
C14_MultasSeparadas ==
    \A par \in MultasDeUnaPlaca :
        Distancia(fromisoformat(violations[par[1]].timestamp),
                  fromisoformat(violations[par[2]].timestamp)) > COOLDOWN_SEC

\* two violations rows of one plate, 11 s apart
C14_Witness ==
    \E par \in MultasDeUnaPlaca :
        Distancia(fromisoformat(violations[par[1]].timestamp),
                  fromisoformat(violations[par[2]].timestamp)) = COOLDOWN_SEC + 1


\* C17: a plate that has a vehicles row when its event begins is never
\* handled as a first sighting, also when the status query raises.
C17_LecturaFallidaNoInventa ==
    \A a \in Eventos : historial[a].conocida => historial[a].registered_before

\* the db writes of the loop body
Escrituras == {"upsert_vehicle", "insert_violation", "insert_detection"}

\* C18: a db write that raises leaves the three tables as they were, and the
\* loop goes on from it as from a write that returned: to the rest of the
\* event and then to the next frame.
C18_FalloNoDetieneElBucle ==
    [][(pc \in {"upsert", "primera", "multa", "deteccion"} /\ n_fallas' = n_fallas + 1) =>
          /\ UNCHANGED varsLedger
          /\ pc' = CASE pc = "upsert" -> IF ev.registered_before THEN "regla" ELSE "primera"
                     [] pc = "multa" -> "deteccion"
                     [] pc \in {"primera", "deteccion"} -> "frame"]_vars

\* an event one of whose writes raised, and a later event that wrote its
\* detections row
C18_Witness ==
    \E a, b \in Eventos :
        /\ a < b
        /\ historial[a].fallas \cap Escrituras # {}
        /\ FilasDe(detections, historial[b].id) # {}

\* the first finished event of this run that resolved its plate to restricted
PrimeroRestringido(a) ==
    /\ historial[a].ret = "False"
    /\ \A b \in 1..(a - 1) :
          ~(historial[b].plate_text = historial[a].plate_text /\ historial[b].ret = "False")

PrimerasVeces(plate) ==
    {i \in 1..Len(detections) :
        detections[i].plate = plate /\ detections[i].reason = "NO_REGISTRADO"}

\* C24: in every ledger state, also after a read or a write of an event
\* raised, a plate has at most one detections row with the first-sighting
\* reason, and that row is the plate's earliest detections row.
C24_PrimeraVezUnaSola ==
    \A plate \in PlacasCamara :
        /\ Cardinality(PrimerasVeces(plate)) <= 1
        /\ \A i \in PrimerasVeces(plate) :
              \A j \in 1..(i - 1) : detections[j].plate # plate

\* C25: between two events, every entry of the cooldown map is the timestamp
\* of a violations row of its plate, also after an event whose photo write or
\* violation insert raised.
C25_CooldownSoloPersistidas ==
    pc = "frame" =>
        \A plate \in DOMAIN cooldown :
            \E i \in 1..Len(violations) :
                /\ violations[i].plate = plate
                /\ violations[i].timestamp = isoformat(cooldown[plate])

\* the finished events of this run that the cooldown let through for a plate
PermitidosDe(plate) ==
    {a \in Eventos : historial[a].plate_text = plate /\ historial[a].pasa}

\* b persisted a violation for the plate of a, and a is the first event of
\* the plate after b, resolved to restricted, more than 10 s after b
PrimeroTrasCooldown(b, a) ==
    /\ b < a
    /\ historial[a].plate_text = historial[b].plate_text
    /\ FilasDe(violations, historial[b].id) # {}
    /\ \A c \in (b + 1)..(a - 1) :
          historial[c].plate_text = historial[a].plate_text
              => FilasDe(violations, historial[c].id) = {}
    /\ historial[a].ret = "False"
    /\ historial[a].ts - historial[b].ts > COOLDOWN_SEC
    /\ \A c \in (b + 1)..(a - 1) :
          (historial[c].plate_text = historial[a].plate_text /\ historial[c].ret = "False")
              => historial[c].ts - historial[b].ts <= COOLDOWN_SEC

\* between two events the map holds, for each plate, the timestamp of the
\* last event the cooldown let through, and nothing for other plates: a
\* suppressed event moves no entry
SuprimidaNoMueve ==
    pc = "frame" =>
        \A plate \in PlacasCamara :
            IF PermitidosDe(plate) = {} THEN plate \notin DOMAIN cooldown
            ELSE /\ plate \in DOMAIN cooldown
                 /\ cooldown[plate] =
                      historial[CHOOSE a \in PermitidosDe(plate) :
                                    \A c \in PermitidosDe(plate) : c <= a].ts

DePlaca(tabla, plate) == SelectSeq(tabla, LAMBDA r : r.plate = plate)

\* C29: no step of an event for one plate changes the vehicles row, the
\* detections rows, the violations rows or the cooldown entry of another
\* plate, and whether its violation is let through depends on the cooldown
\* entry of its own plate alone.
C29_OtrasPlacasIntactas ==
    [][/\ \A B \in PlacasCamara :
             B # ev.plate_text =>
                /\ B \in DOMAIN vehicles' <=> B \in DOMAIN vehicles
                /\ IF B \in DOMAIN vehicles /\ B \in DOMAIN vehicles'
                   THEN vehicles'[B] = vehicles[B] ELSE TRUE
                /\ DePlaca(detections', B) = DePlaca(detections, B)
                /\ DePlaca(violations', B) = DePlaca(violations, B)
                /\ B \in DOMAIN cooldown' <=> B \in DOMAIN cooldown
                /\ IF B \in DOMAIN cooldown /\ B \in DOMAIN cooldown'
                   THEN cooldown'[B] = cooldown[B] ELSE TRUE
       /\ pc = "regla" =>
             (ev'.pasa <=>
                 /\ ev'.violation
                 /\ IF ev.plate_text \in DOMAIN cooldown
                    THEN ev.ts - cooldown[ev.plate_text] > COOLDOWN_SEC
                    ELSE TRUE)]_vars

\* two plates, each with a violation persisted by its event, the second
\* within 10 s of the first
C29_Witness ==
    \E a, b \in Eventos :
        /\ a < b
        /\ historial[a].plate_text # historial[b].plate_text
        /\ FilasDe(violations, historial[a].id) # {}
        /\ FilasDe(violations, historial[b].id) # {}
        /\ historial[b].ts - historial[a].ts \in 0..COOLDOWN_SEC
        /\ historial[b].plate_text \in DOMAIN cooldown
        /\ historial[a].plate_text \in DOMAIN cooldown

=============================================================================
